---- MODULE Spec2Model ----
(***************************************************************************)
(* The signaling client (DidClient), the peer connection manager           *)
(* (WebRTCManager) and the message sequencer (the useDidStreaming hook)    *)
(* of d-id-nextjs, as one state machine.                                   *)
(*                                                                         *)
(* One action is one JavaScript task: a public call, or one event          *)
(* delivered by the browser (socket open/close/message, peer connection    *)
(* state change, data channel message, timer).  handleInitStream awaits    *)
(* the peer manager, so it is two tasks: HandleInitStream (up to the first *)
(* await) and InitStreamEnd (the continuation).                            *)
(***************************************************************************)
EXTENDS Integers, Sequences, FiniteSets, TLC

VARIABLES
    ws,               \* DidClient.ws: "null" or "set"
    sock,             \* readyState of the socket object made by the last connect()
    connPc,           \* connect(): "idle", or "awaitOpen" (awaiting connectToWebSocket)
    connectionState,  \* DidClient.connectionState
    serviceType,      \* DidClient.serviceType
    presenterConfig,  \* DidClient.presenterConfig[serviceType]
    negotiation,      \* the handleInitStream calls awaiting createPeerConnection, oldest first
    peerConnection,   \* WebRTCManager.peerConnection: 0 (null) or the object's identity
    dataChannel,      \* WebRTCManager.dataChannel: 0 (null) or the object's identity
    pcState,          \* transport state of the object peerConnection refers to
    isStreamReady,    \* WebRTCManager._isStreamReady
    videoIsPlaying,   \* WebRTCManager._videoIsPlaying
    lastBytesReceived, \* WebRTCManager.lastBytesReceived
    statsIntervalId,  \* WebRTCManager.statsIntervalId: "null" or "set"
    statsIntervals,   \* setInterval timers of setupStatsMonitoring not cleared so far
    statsInFlight,    \* sampler callbacks awaiting getStats
    fallbackTimers,   \* pending setTimeout of handleConnectionEstablished
    settleTimers,     \* pending setTimeout of processStreamEvent ('stream/ready')
    hook,             \* useDidStreaming state (latest committed React state)
    rendered,         \* the part of hook captured by the closures of the last render
    resetTimers,      \* pending setTimeout of onStreamEvent ('done')
    inits,            \* complete init-stream responses the server has sent so far
    pcMade,           \* identities handed out to RTCPeerConnection objects so far
    pcSinceClose,     \* RTCPeerConnection objects constructed since the last close()
    idsFresh,         \* the identifiers were assigned by a response on the current socket
    progress,         \* milestones of the current attempt, each at its first occurrence
    unresolved,       \* stream-text envelopes sent with no terminal status observed since
    cancelling,       \* readiness and pending fallback timers of a manager that cancels the timer
    aliased,          \* the record last passed to onConnectionStateChange is DidClient.connectionState
    last              \* the last task: operation, outcome, envelopes it put on the socket

vars == <<ws, sock, connPc, connectionState, serviceType, presenterConfig, negotiation,
          peerConnection, dataChannel, pcState, isStreamReady, videoIsPlaying,
          lastBytesReceived, statsIntervalId, statsIntervals, statsInFlight, fallbackTimers,
          settleTimers, hook, rendered, resetTimers, inits, pcMade, pcSinceClose,
          idsFresh, progress, unresolved, cancelling, aliased, last>>

\* The program's state: everything but the record of the last task.
state == <<ws, sock, connPc, connectionState, serviceType, presenterConfig, negotiation,
           peerConnection, dataChannel, pcState, isStreamReady, videoIsPlaying,
           lastBytesReceived, statsIntervalId, statsIntervals, statsInFlight, fallbackTimers,
           settleTimers, hook, rendered, resetTimers, inits, pcMade, pcSinceClose,
           idsFresh, progress, unresolved, cancelling, aliased>>

(***************************************************************************)
(* Bounds of the model.                                                    *)
(***************************************************************************)
MaxInits == 2
MaxUnresolved == 2
MaxSettleTimers == 1
MaxResetTimers == 1
MaxTracks == 2
MaxInFlight == 1
MaxBytes == 1
MaxFallbackTimers == 2

(***************************************************************************)
(* Values.                                                                 *)
(***************************************************************************)
None == "null"

Warmup == TRUE

NOT_CONNECTED == "Not connected to streaming service"
ALREADY_STREAMING == "Already streaming a message. Please wait for current stream to complete."
WS_FAILED == "WebSocket connection failed"
WEBRTC_FAILED == "WebRTC connection failed"
INVALID_INIT == "Invalid init-stream response"

Texts == {"hola"}

(***************************************************************************)
(* Presenter configurations: presenterConfig[serviceType] of the client.   *)
(***************************************************************************)
Configs ==
    { [serviceType |-> "talks", presenterConfig |-> [source_url |-> "url"]],
      [serviceType |-> "talks", presenterConfig |-> [source_url |-> None]],
      [serviceType |-> "clips", presenterConfig |-> [presenter_id |-> "p", driver_id |-> None]] }

(***************************************************************************)
(* Inbound envelopes of the control channel.  A field the server left out  *)
(* is None.                                                                *)
(***************************************************************************)
\* The n-th init-stream response of the server: every session it opens has
\* identifiers of its own.
StreamIds == <<"s1", "s2", "s3", "s4">>
SessionIds == <<"sess1", "sess2", "sess3", "sess4">>
Offers == <<"O1", "O2", "O3", "O4">>

InitResponse(n) ==
    [messageType |-> "init-stream", id |-> StreamIds[n], session_id |-> SessionIds[n],
     offer |-> Offers[n], ice_servers |-> "ice"]

InitFields == {"id", "session_id", "offer", "ice_servers"}

\* A response with one required field left out.
Without(data, f) == [k \in DOMAIN data |-> IF k = f THEN None ELSE data[k]]

\* The status of an inbound stream-text envelope: absent, a status word, or
\* any other string the server puts there.
WsStatuses == {None, "started", "done", "error", "stream/started"}

StatusMessages == { [messageType |-> "stream-text", status |-> s] : s \in WsStatuses }

OtherMessages == { [messageType |-> "sdp"], [messageType |-> "delete-stream"] }

(***************************************************************************)
(* Data channel messages: a string is the sequence of its pieces, ":"      *)
(* being the separator split(':') cuts at.                                 *)
(***************************************************************************)
DcMessages ==
    { <<"stream/started", ":", "abc">>, <<"stream/done", ":", "abc">>,
      <<"stream/ready", ":", "xyz">>, <<"stream/error", ":", "abc">>,
      <<"stream/unknown", ":", "abc">> }

(***************************************************************************)
(* DidClient                                                               *)
(***************************************************************************)
InitialConnectionState ==
    [isConnecting |-> FALSE, isConnected |-> FALSE, streamId |-> None,
     sessionId |-> None, error |-> None]

\* An update that drops the error unless it is given one.
updateConnectionStateClearingError(cs, updates) ==
    [k \in DOMAIN cs |-> IF k \in DOMAIN updates THEN updates[k]
                         ELSE IF k = "error" THEN None ELSE cs[k]]

updateConnectionState(cs, updates) ==
    [k \in DOMAIN cs |-> IF k \in DOMAIN updates THEN updates[k] ELSE cs[k]]

\* A reset that keeps the identifiers.
resetConnectionStateKeepingIds(cs) ==
    [InitialConnectionState EXCEPT !.streamId = cs.streamId, !.sessionId = cs.sessionId]

resetConnectionState(cs) == InitialConnectionState

presenter_type(st) == IF st = "clips" THEN "clip" ELSE "talk"

\* sendMessage with this.ws = w and readyState s: what it puts on the socket.
sendMessage(w, s, message) ==
    IF w = "null" THEN <<>>
    ELSE IF s = "open" THEN <<message>>
    ELSE <<>>

\* createInitStreamMessage: the message, or the error it throws.
createInitStreamMessage(st, pcfg) ==
    IF st = "clips" /\ (pcfg.presenter_id = None \/ pcfg.driver_id = None)
    THEN [threw |-> "Clips mode requires presenter_id and driver_id"]
    ELSE IF st = "talks" /\ pcfg.source_url = None
    THEN [threw |-> "Talks mode requires source_url"]
    ELSE [threw |-> None,
          message |-> [type |-> "init-stream", payload |-> pcfg,
                       presenter_type |-> presenter_type(st)]]

\* A guard that looks at the socket alone.
SendTextGuardSocketOnly(w, cs) == w = "null"

\* The guard of sendTextMessage (lines 83-86).
SendTextGuard(w, cs) == w = "null" \/ cs.streamId = None \/ cs.sessionId = None

StreamTextMessage(st, cs, text, messageIndex) ==
    [type |-> "stream-text", input |-> text, provider |-> "elevenlabs",
     ssml |-> (st = "clips"), stitch |-> TRUE,
     session_id |-> cs.sessionId, stream_id |-> cs.streamId,
     index |-> messageIndex, presenter_type |-> presenter_type(st),
     apiKeyExternal |-> (st # "clips")]

\* A validation that forgets the offer.
InitStreamValidNoOffer(data) ==
    data.id # None /\ data.session_id # None /\ data.ice_servers # None

\* The validation of handleInitStream (lines 283-286).
InitStreamValid(data) ==
    data.id # None /\ data.session_id # None /\ data.offer # None /\ data.ice_servers # None

(***************************************************************************)
(* WebRTCManager                                                           *)
(***************************************************************************)
\* split(':')[0]
EventType(event) ==
    LET cuts == { i \in 1..Len(event) : event[i] = ":" }
    IN  IF cuts = {} THEN event
        ELSE SubSeq(event, 1, (CHOOSE i \in cuts : \A j \in cuts : i <= j) - 1)

\* The switch of processStreamEvent (lines 137-156).
StreamStatus(eventType) ==
    IF eventType = <<"stream/started">> THEN "started"
    ELSE IF eventType = <<"stream/done">> THEN "done"
    ELSE IF eventType = <<"stream/ready">> THEN "ready"
    ELSE IF eventType = <<"stream/error">> THEN "error"
    ELSE "dont-care"

\* A classifier that turns readiness on as soon as 'stream/ready' arrives.
processStreamEventReadyAtOnce(event, ready) ==
    [status |-> StreamStatus(EventType(event)),
     isReady |-> ready \/ StreamStatus(EventType(event)) = "ready"]

\* processStreamEvent with _isStreamReady = ready: what it returns (the
\* settle timer it arms on 'stream/ready' is in DcMessage).
processStreamEvent(event, ready) ==
    [status |-> StreamStatus(EventType(event)), isReady |-> ready]

\* A fallback that does not force readiness.
FallbackReadyNever(ready) == ready

\* A fallback that flips readiness.
FallbackReadyFlip(ready) == ~ready

\* The timer of handleConnectionEstablished (lines 99-104): readiness after it fires.
FallbackReady(ready) == IF ~ready THEN TRUE ELSE ready

\* One sample of the statistics timer (lines 117-126): the inbound video
\* report's bytesReceived against the last sample.
StatsSample(playing, lastBytes, bytesReceived) ==
    [videoIsPlaying |-> IF playing # (bytesReceived > lastBytes)
                        THEN bytesReceived > lastBytes ELSE playing,
     lastBytesReceived |-> bytesReceived]

Answer(offer) == [type |-> "answer", to |-> offer]

\* The sdp envelope of handleInitStream (lines 330-337).
SdpMessage(answer, cs, st) ==
    [type |-> "sdp", answer |-> answer, session_id |-> cs.sessionId,
     presenter_type |-> presenter_type(st)]

NoNegotiation == <<>>

(***************************************************************************)
(* ICE candidates.  The values of this part are all records, so that any   *)
(* two can be compared: Nil is null/undefined, Str(s) a string, Num(n) a   *)
(* number, and an object is the record of its properties.                  *)
(***************************************************************************)
Nil == [nil |-> TRUE]

Str(s) == [str |-> s]

Num(n) == [num |-> n]

\* x.f: undefined when x has no such property (a string has none of these).
Field(x, f) == IF f \in DOMAIN x THEN x[f] ELSE Nil

\* a ?? b
Coalesce(a, b) == IF a = Nil THEN b ELSE a

Truthy(x) == x # Nil /\ x # Str("")

\* An RTCIceCandidate of the local end.
Candidate(c) == [candidate |-> Str(c), sdpMid |-> Str("0"), sdpMLineIndex |-> Num(0)]

\* icecandidate events: the candidates found, and the null one that ends gathering.
IceEvents == { [candidate |-> Nil], [candidate |-> Candidate("c1")],
               [candidate |-> Candidate("c2")] }

\* The ice envelope of handleIceCandidate (lines 361-371).
IceMessage(candidate, cs, st) ==
    [type |-> "ice", stream_id |-> cs.streamId, session_id |-> cs.sessionId,
     presenter_type |-> presenter_type(st),
     candidate |-> Field(candidate, "candidate"), sdpMid |-> Field(candidate, "sdpMid"),
     sdpMLineIndex |-> Field(candidate, "sdpMLineIndex")]

\* A handler that forwards every event, the end of gathering included.
handleIceCandidateForwardAll(event, w, s, cs, st) ==
    sendMessage(w, s, IceMessage(event.candidate, cs, st))

\* handleIceCandidate (lines 354-372): what it puts on the socket.
handleIceCandidate(event, w, s, cs, st) ==
    IF event.candidate = Nil THEN <<>>
    ELSE sendMessage(w, s, IceMessage(event.candidate, cs, st))

\* Payloads of inbound ice envelopes: none, the candidate fields flat, the
\* candidate fields nested under a candidate key, and one with no candidate.
FlatPayload(c) == Candidate(c)

NestedPayload(c) == [candidate |-> Candidate(c)]

IcePayloads == { Nil, FlatPayload("r1"), NestedPayload("r1"), [sdpMid |-> Str("0")] }

\* An ice case that does not look for the peer connection.
IceToApplyAnyPc(pc, payload) ==
    IF Truthy(payload)
    THEN LET candPayload == Coalesce(Field(payload, "candidate"), payload)
         IN  IF Truthy(candPayload) /\ Truthy(Field(candPayload, "candidate"))
             THEN [candidate |-> Field(candPayload, "candidate"),
                   sdpMid |-> Field(candPayload, "sdpMid"),
                   sdpMLineIndex |-> Field(candPayload, "sdpMLineIndex")]
             ELSE Nil
    ELSE Nil

\* The ice case of handleWebSocketMessage (lines 218-237): the argument of
\* addIceCandidate, or Nil when it is not called.
IceToApply(pc, payload) ==
    IF pc # 0 /\ Truthy(payload)
    THEN LET candPayload == Coalesce(Field(payload, "candidate"), payload)
         IN  IF Truthy(candPayload) /\ Truthy(Field(candPayload, "candidate"))
             THEN [candidate |-> Field(candPayload, "candidate"),
                   sdpMid |-> Field(candPayload, "sdpMid"),
                   sdpMLineIndex |-> Field(candPayload, "sdpMLineIndex")]
             ELSE Nil
    ELSE Nil

(***************************************************************************)
(* Error payloads (DidErrorPayload, lines 9-18) and formatApiError.  The   *)
(* values are the records of the ICE part: a payload is the record of the  *)
(* properties it carries, a string is Str(s).  Strings of the result are   *)
(* built by concatenation as the code builds them.                         *)
(***************************************************************************)
ErrorObject == [code |-> Str("E1")]

\* The order in which JSON.stringify writes the properties of a payload.
KeyOrder == <<"messageType", "message", "error", "connectionId", "requestId",
              "payload", "code", "detail">>

RECURSIVE Stringify(_), Members(_, _)

\* The members of object x from the i-th key of KeyOrder on, comma separated.
Members(x, i) ==
    IF i > Len(KeyOrder) THEN ""
    ELSE LET k == KeyOrder[i]
             rest == Members(x, i + 1)
         IN IF k \notin DOMAIN x THEN rest
            ELSE "\"" \o k \o "\":" \o Stringify(x[k])
                     \o (IF rest = "" THEN "" ELSE "," \o rest)

\* JSON.stringify
Stringify(x) ==
    IF "str" \in DOMAIN x THEN "\"" \o x.str \o "\""
    ELSE "{" \o Members(x, 1) \o "}"

IsString(x) == "str" \in DOMAIN x

RECURSIVE Join(_, _)

\* details.join(sep)
Join(details, sep) ==
    IF Len(details) = 0 THEN ""
    ELSE IF Len(details) = 1 THEN details[1]
    ELSE details[1] \o sep \o Join(Tail(details), sep)

\* A formatter that looks at the error property before the message.
formatApiErrorErrorFirst(data) ==
    IF Truthy(Field(data, "error"))
    THEN IF IsString(data.error) THEN data.error.str ELSE Stringify(data.error)
    ELSE IF Truthy(Field(data, "message")) THEN data.message.str
    ELSE "API Error: " \o Stringify(data)

\* formatApiError (lines 377-400)
formatApiError(data) ==
    IF Truthy(Field(data, "message"))
    THEN LET details ==
                 (IF Truthy(Field(data, "connectionId"))
                  THEN <<"Connection: " \o data.connectionId.str>> ELSE <<>>)
              \o (IF Truthy(Field(data, "requestId"))
                  THEN <<"Request: " \o data.requestId.str>> ELSE <<>>)
         IN IF Len(details) > 0
            THEN data.message.str \o " (" \o Join(details, ", ") \o ")"
            ELSE data.message.str
    ELSE IF Truthy(Field(data, "error"))
    THEN IF IsString(data.error) THEN data.error.str ELSE Stringify(data.error)
    ELSE IF Truthy(Field(Field(data, "payload"), "error"))
    THEN IF IsString(data.payload.error)
         THEN data.payload.error.str ELSE Stringify(data.payload.error)
    ELSE "API Error: " \o Stringify(data)

\* The record of the properties of `fields` that carry a value.
Payload(fields) ==
    [k \in {f \in DOMAIN fields : fields[f] # Nil} |-> fields[k]]

\* Error envelopes: every combination of the properties of DidErrorPayload,
\* each absent or carrying a value.
ApiErrors ==
    { Payload([messageType |-> Str("error"), message |-> m, connectionId |-> c,
               requestId |-> r, error |-> e, payload |-> pl]) :
        m \in {Nil, Str("Quota exceeded")}, c \in {Nil, Str("c1")},
        r \in {Nil, Str("r1")}, e \in {Nil, Str("bad"), ErrorObject},
        pl \in {Nil, [detail |-> Str("d")], [error |-> Str("inner")],
                [error |-> ErrorObject]} }

\* The error envelopes and the envelopes of an unrecognized type that arrive
\* in a session: with a message, with an error, with payload.error only, bare.
ErrorEnvelopes ==
    { [messageType |-> Str("error"), message |-> Str("Quota exceeded"),
       connectionId |-> Str("c1")] }

UnknownEnvelopes ==
    { [messageType |-> Str("notice"), message |-> Str("Quota exceeded"),
       connectionId |-> Str("c1")],
      [messageType |-> Str("notice"), error |-> Str("bad")],
      [messageType |-> Str("notice"), payload |-> [error |-> Str("inner")]],
      [messageType |-> Str("notice")] }

\* A default case that looks at the error property only.
ErrorLikeErrorOnly(data) == Truthy(Field(data, "error"))

\* The test of the default case (line 257).
ErrorLike(data) == Truthy(Field(data, "error")) \/ "message" \in DOMAIN data

\* Updates that take the session down with the error.
ErrorUpdatesTearingDown(errorMessage) ==
    [error |-> errorMessage, isConnecting |-> FALSE, isConnected |-> FALSE,
     sessionId |-> None, streamId |-> None]

\* The updates of the error case (line 250) and of the default case (line 260).
ErrorUpdates(errorMessage) == [error |-> errorMessage, isConnecting |-> FALSE]


(***************************************************************************)
(* useDidStreaming                                                         *)
(***************************************************************************)
InitialHook ==
    [connectionState |-> InitialConnectionState, isStreaming |-> FALSE]

\* What the closures of one render read.
Snapshot(h) ==
    [isConnected |-> h.connectionState.isConnected,
     isConnecting |-> h.connectionState.isConnecting,
     isStreaming |-> h.isStreaming]

\* The setState of onStreamEvent (lines 91-96).
StreamEventState(h, status) ==
    [h EXCEPT !.isStreaming = IF status = "started" THEN TRUE
                              ELSE IF status = "done" THEN FALSE ELSE @]

isReady == rendered.isConnected /\ ~rendered.isConnecting /\ ~rendered.isStreaming

\* The manager's flags, as a task that closes finds them.
Flags == [isStreamReady |-> isStreamReady, videoIsPlaying |-> videoIsPlaying]

\* The record of one task.
Task(op, result, out) == [op |-> op, result |-> result, out |-> out]

Has(p, milestone) == \E i \in 1..Len(p) : p[i] = milestone

\* A milestone is recorded the first time it happens in an attempt.
Reached(p, milestone) == IF Has(p, milestone) THEN p ELSE Append(p, milestone)

(***************************************************************************)
(* Initial state: the hook mounted, the client constructed.                *)
(***************************************************************************)
Init ==
    /\ \E c \in Configs : serviceType = c.serviceType /\ presenterConfig = c.presenterConfig
    /\ ws = "null"
    /\ sock = "none"
    /\ connPc = "idle"
    /\ connectionState = InitialConnectionState
    /\ negotiation = NoNegotiation
    /\ peerConnection = 0
    /\ dataChannel = 0
    /\ pcState = "none"
    /\ isStreamReady = ~Warmup
    /\ videoIsPlaying = FALSE
    /\ lastBytesReceived = 0
    /\ statsIntervalId = None
    /\ statsIntervals = 0
    /\ statsInFlight = 0
    /\ fallbackTimers = 0
    /\ settleTimers = 0
    /\ hook = InitialHook
    /\ rendered = Snapshot(InitialHook)
    /\ resetTimers = 0
    /\ inits = 0
    /\ pcMade = 0
    /\ pcSinceClose = 0
    /\ idsFresh = FALSE
    /\ progress = <<>>
    /\ unresolved = 0
    /\ aliased = FALSE
    /\ cancelling = [isStreamReady |-> ~Warmup, fallbackTimers |-> 0]
    /\ last = Task("init", None, <<>>)

(***************************************************************************)
(* WebRTCManager.close(): what it leaves in the manager's fields.          *)
(***************************************************************************)
\* A close() that leaves the readiness and playing flags as they are.
closeKeepingFlags ==
    /\ statsIntervals' = IF statsIntervalId # None THEN statsIntervals - 1 ELSE statsIntervals
    /\ statsIntervalId' = None
    /\ dataChannel' = 0
    /\ peerConnection' = 0
    /\ pcState' = "none"
    /\ UNCHANGED <<isStreamReady, videoIsPlaying>>
    /\ lastBytesReceived' = 0
    /\ pcSinceClose' = 0
    /\ cancelling' = [isStreamReady |-> ~Warmup, fallbackTimers |-> 0]

close ==
    /\ statsIntervals' = IF statsIntervalId # None THEN statsIntervals - 1 ELSE statsIntervals
    /\ statsIntervalId' = None
    /\ dataChannel' = 0
    /\ peerConnection' = 0
    /\ pcState' = "none"
    /\ isStreamReady' = ~Warmup
    /\ videoIsPlaying' = FALSE
    /\ lastBytesReceived' = 0
    /\ pcSinceClose' = 0
    /\ cancelling' = [isStreamReady |-> ~Warmup, fallbackTimers |-> 0]

\* The connection-state callback of the hook (line 63).
onConnectionStateChange(h, cs) == [h EXCEPT !.connectionState = cs]

(***************************************************************************)
(* connect(), up to the await of connectToWebSocket.  The caller           *)
(* serializes connect calls: none while an attempt is pending or a channel *)
(* is held.                                                                *)
(***************************************************************************)
Connect ==
    /\ connPc = "idle"
    /\ ws = "null"
    /\ connectionState' =
           updateConnectionState(connectionState, [isConnecting |-> TRUE, error |-> None])
    /\ hook' = onConnectionStateChange(hook, connectionState')
    /\ aliased' = TRUE
    /\ sock' = "connecting"
    /\ connPc' = "awaitOpen"
    /\ idsFresh' = FALSE
    /\ progress' = <<>>
    /\ unresolved' = 0
    /\ last' = Task("connect", "awaiting", <<>>)
    /\ UNCHANGED cancelling
    /\ UNCHANGED <<ws, serviceType, presenterConfig, negotiation, peerConnection,
                   dataChannel, pcState, isStreamReady, videoIsPlaying, lastBytesReceived,
                   statsIntervalId, statsIntervals, statsInFlight, fallbackTimers,
                   settleTimers, rendered, resetTimers, inits, pcMade, pcSinceClose>>

(***************************************************************************)
(* ws.onopen: connect() resumes, keeps the socket, installs the handlers   *)
(* and sends the init-stream request, or fails on the configuration.       *)
(***************************************************************************)
WsOpen ==
    /\ connPc = "awaitOpen"
    /\ sock = "connecting"
    /\ sock' = "open"
    /\ ws' = "set"
    /\ connPc' = "idle"
    /\ LET init == createInitStreamMessage(serviceType, presenterConfig)
       IN  IF init.threw = None
           THEN /\ last' = Task("wsOpen", None, sendMessage(ws', sock', init.message))
                /\ progress' = Reached(Reached(progress, "open"), "init-sent")
                /\ UNCHANGED <<connectionState, hook, aliased>>
           ELSE /\ connectionState' =
                       updateConnectionState(connectionState,
                           [isConnecting |-> FALSE, error |-> init.threw])
                /\ hook' = onConnectionStateChange(hook, connectionState')
                /\ aliased' = TRUE
                /\ last' = Task("wsOpen", init.threw, <<>>)
                /\ progress' = Reached(progress, "open")
    /\ UNCHANGED cancelling
    /\ UNCHANGED <<serviceType, presenterConfig, negotiation, peerConnection, dataChannel,
                   pcState, isStreamReady, videoIsPlaying, lastBytesReceived,
                   statsIntervalId, statsIntervals, statsInFlight, fallbackTimers,
                   settleTimers, rendered, resetTimers, inits, pcMade, pcSinceClose,
                   idsFresh, unresolved>>

(***************************************************************************)
(* ws.onerror before the socket opened: connect() fails.                   *)
(***************************************************************************)
WsError ==
    /\ connPc = "awaitOpen"
    /\ sock = "connecting"
    /\ sock' = "closed"
    /\ connPc' = "idle"
    /\ connectionState' =
           updateConnectionState(connectionState, [isConnecting |-> FALSE, error |-> WS_FAILED])
    /\ hook' = onConnectionStateChange(hook, connectionState')
    /\ aliased' = TRUE
    /\ last' = Task("wsError", WS_FAILED, <<>>)
    /\ UNCHANGED cancelling
    /\ UNCHANGED <<ws, serviceType, presenterConfig, negotiation, peerConnection,
                   dataChannel, pcState, isStreamReady, videoIsPlaying, lastBytesReceived,
                   statsIntervalId, statsIntervals, statsInFlight, fallbackTimers,
                   settleTimers, rendered, resetTimers, inits, pcMade, pcSinceClose,
                   idsFresh, progress, unresolved>>

(***************************************************************************)
(* The open socket closes (server or network): onclose only logs.          *)
(***************************************************************************)
WsClose ==
    /\ sock = "open"
    /\ sock' = "closed"
    /\ last' = Task("wsClose", None, <<>>)
    /\ UNCHANGED aliased
    /\ UNCHANGED cancelling
    /\ UNCHANGED <<ws, connPc, connectionState, serviceType, presenterConfig, negotiation,
                   peerConnection, dataChannel, pcState, isStreamReady, videoIsPlaying,
                   lastBytesReceived, statsIntervalId, statsIntervals, statsInFlight,
                   fallbackTimers, settleTimers, hook, rendered, resetTimers, inits,
                   pcMade, pcSinceClose, idsFresh, progress, unresolved>>

\* A disconnect() in which a delete-stream that cannot be sent throws.
disconnectThrowingOnFailedSend(w, s, cs) ==
    [threw |-> w # "null" /\ s # "open",
     closed |-> w # "null" /\ s = "open",
     sent |-> IF w # "null" /\ s = "open"
              THEN <<[type |-> "delete-stream", session_id |-> cs.sessionId,
                      stream_id |-> cs.streamId]>>
              ELSE <<>>]

\* A disconnect() that resets the state before it builds the delete-stream.
disconnectResettingFirst(w, s, cs) ==
    [threw |-> FALSE,
     closed |-> w # "null",
     sent |-> IF w # "null"
              THEN sendMessage(w, s, [type |-> "delete-stream",
                                      session_id |-> InitialConnectionState.sessionId,
                                      stream_id |-> InitialConnectionState.streamId])
              ELSE <<>>]

(***************************************************************************)
(* DidClient.disconnect() (lines 130-147) with this.ws = w, readyState s   *)
(* and state cs: what it puts on the socket, whether it closes the socket, *)
(* and whether a statement of it throws before the teardown. sendMessage   *)
(* logs and returns when the socket is not open, and no other statement    *)
(* of the method throws.                                                   *)
(***************************************************************************)
disconnect(w, s, cs) ==
    [threw |-> FALSE,
     closed |-> w # "null",
     sent |-> IF w # "null"
              THEN sendMessage(w, s, [type |-> "delete-stream",
                                      session_id |-> cs.sessionId,
                                      stream_id |-> cs.streamId])
              ELSE <<>>]

(***************************************************************************)
(* disconnect() of the hook: DidClient.disconnect(), then the state reset. *)
(* The task records the state it was called in.                            *)
(***************************************************************************)
Disconnect ==
    LET d == disconnect(ws, sock, connectionState) IN
    /\ last' = Task("disconnect",
                    [threw |-> d.threw, ws |-> ws, sock |-> sock,
                     pc |-> peerConnection # 0, cs |-> connectionState],
                    d.sent)
    /\ IF d.threw
       THEN UNCHANGED <<ws, sock, connectionState, peerConnection, dataChannel,
                        pcState, isStreamReady, videoIsPlaying, lastBytesReceived,
                        statsIntervalId, statsIntervals, pcSinceClose, hook,
                        unresolved, aliased, cancelling>>
       ELSE /\ sock' = IF d.closed THEN "closed" ELSE sock
            /\ ws' = "null"
            /\ close
            /\ connectionState' = resetConnectionState(connectionState)
            /\ aliased' = FALSE
            /\ hook' = InitialHook
            /\ unresolved' = 0
    /\ UNCHANGED <<connPc, serviceType, presenterConfig, negotiation, statsInFlight,
                   fallbackTimers, settleTimers, rendered, resetTimers, inits, pcMade,
                   idsFresh, progress>>

(***************************************************************************)
(* onStreamEvent of the hook (lines 72-97): a 'done' arms the reset timer, *)
(* then the state update.                                                  *)
(***************************************************************************)
onStreamEvent(status) ==
    /\ status = "done" => resetTimers < MaxResetTimers
    /\ resetTimers' = IF status = "done" THEN resetTimers + 1 ELSE resetTimers
    /\ hook' = StreamEventState(hook, status)
    /\ unresolved' = IF status \in {"done", "error"} THEN 0 ELSE unresolved

\* A createPeerConnection that constructs the objects on every call.
AlwaysNewPeerConnection(pc) == TRUE

\* createPeerConnection constructs the objects only when it holds none (line 38).
NeedsNewPeerConnection(pc) == pc = 0

(***************************************************************************)
(* An init-stream envelope arrives: handleInitStream up to the await of    *)
(* createPeerConnection (which itself has run up to setRemoteDescription). *)
(* The server answers a request: it sends no init-stream response on a    *)
(* socket that carried no init-stream request.                             *)
(***************************************************************************)
HandleInitStream(data) ==
    /\ sock = "open"
    /\ Has(progress, "init-sent")
    /\ IF ~InitStreamValid(data)
       THEN /\ last' = Task("init-stream", INVALID_INIT, <<>>)
            /\ UNCHANGED <<connectionState, negotiation, peerConnection, dataChannel,
                           pcState, pcMade, pcSinceClose, idsFresh, inits, progress,
                           aliased>>
       ELSE /\ inits' = inits + 1
            /\ connectionState' =
                   updateConnectionState(connectionState,
                       [streamId |-> data.id, sessionId |-> data.session_id])
            /\ aliased' = FALSE
            /\ idsFresh' = TRUE
            /\ progress' = Reached(progress, "assigned")
            /\ IF NeedsNewPeerConnection(peerConnection)
               THEN /\ peerConnection' = pcMade + 1
                    /\ dataChannel' = pcMade + 1
                    /\ pcMade' = pcMade + 1
                    /\ pcSinceClose' = pcSinceClose + 1
                    /\ pcState' = "new"
               ELSE UNCHANGED <<peerConnection, dataChannel, pcMade, pcSinceClose, pcState>>
            /\ negotiation' = Append(negotiation, [data |-> data, pc |-> peerConnection'])
            /\ last' = Task("init-stream", "awaiting", <<>>)
    /\ UNCHANGED cancelling
    /\ UNCHANGED <<ws, sock, connPc, serviceType, presenterConfig, isStreamReady,
                   videoIsPlaying, lastBytesReceived, statsIntervalId, statsIntervals,
                   statsInFlight, fallbackTimers, settleTimers, hook, rendered,
                   resetTimers, unresolved>>

(***************************************************************************)
(* The oldest awaited createPeerConnection settles (the connection runs    *)
(* its operations in the order they were asked for) and handleInitStream   *)
(* resumes: the answer is sent, or the failure is recorded.  The           *)
(* negotiation fails when the browser rejects it (ok = FALSE) or the       *)
(* connection object was closed and dropped meanwhile.                     *)
(***************************************************************************)
InitStreamEnd(ok) ==
    /\ negotiation # <<>>
    /\ negotiation' = Tail(negotiation)
    /\ IF ok /\ peerConnection # 0 /\ peerConnection = Head(negotiation).pc
       THEN LET out == sendMessage(ws, sock,
                           SdpMessage(Answer(Head(negotiation).data.offer),
                                      connectionState, serviceType))
            IN  /\ pcState' = IF pcState = "new" /\ out # <<>> THEN "answered" ELSE pcState
                /\ last' = Task("initStreamEnd", Head(negotiation).data.session_id, out)
                /\ progress' = IF out # <<>>
                               THEN Reached(Reached(progress, "answer"), "sdp-sent")
                               ELSE Reached(progress, "answer")
                /\ UNCHANGED <<connectionState, hook, aliased>>
       ELSE /\ connectionState' =
                   updateConnectionState(connectionState,
                       [isConnecting |-> FALSE, error |-> WEBRTC_FAILED])
            /\ hook' = onConnectionStateChange(hook, connectionState')
            /\ aliased' = TRUE
            /\ last' = Task("initStreamEnd", WEBRTC_FAILED, <<>>)
            /\ UNCHANGED <<pcState, progress>>
    /\ UNCHANGED cancelling
    /\ UNCHANGED <<ws, sock, connPc, serviceType, presenterConfig, peerConnection,
                   dataChannel, isStreamReady, videoIsPlaying, lastBytesReceived,
                   statsIntervalId, statsIntervals, statsInFlight, fallbackTimers,
                   settleTimers, rendered, resetTimers, inits, pcMade, pcSinceClose,
                   idsFresh, unresolved>>

(***************************************************************************)
(* A stream-text envelope arrives: its status, when present, goes to the   *)
(* caller's onStreamEvent as it is (lines 238-243).                        *)
(***************************************************************************)
HandleStreamText(m) ==
    /\ sock = "open"
    /\ IF m.status # None
       THEN onStreamEvent(m.status)
       ELSE UNCHANGED <<resetTimers, hook, unresolved>>
    /\ last' = Task("stream-text", m.status, <<>>)
    /\ UNCHANGED aliased
    /\ UNCHANGED cancelling
    /\ UNCHANGED <<ws, sock, connPc, connectionState, serviceType, presenterConfig,
                   negotiation, peerConnection, dataChannel, pcState, isStreamReady,
                   videoIsPlaying, lastBytesReceived, statsIntervalId, statsIntervals,
                   statsInFlight, fallbackTimers, settleTimers, rendered, inits, pcMade,
                   pcSinceClose, idsFresh, progress>>

(***************************************************************************)
(* An sdp or delete-stream envelope arrives: logged.                       *)
(***************************************************************************)
HandleOther(m) ==
    /\ sock = "open"
    /\ last' = Task(m.messageType, None, <<>>)
    /\ UNCHANGED aliased
    /\ UNCHANGED cancelling
    /\ UNCHANGED <<ws, sock, connPc, connectionState, serviceType, presenterConfig,
                   negotiation, peerConnection, dataChannel, pcState, isStreamReady,
                   videoIsPlaying, lastBytesReceived, statsIntervalId, statsIntervals,
                   statsInFlight, fallbackTimers, settleTimers, hook, rendered,
                   resetTimers, inits, pcMade, pcSinceClose, idsFresh, progress,
                   unresolved>>

(***************************************************************************)
(* An error envelope arrives (lines 247-253): the formatted message goes   *)
(* into the connection state and the caller is notified.                   *)
(***************************************************************************)
HandleError(data) ==
    /\ sock = "open"
    /\ connectionState' =
           updateConnectionState(connectionState, ErrorUpdates(formatApiError(data)))
    /\ hook' = onConnectionStateChange(hook, connectionState')
    /\ aliased' = TRUE
    /\ last' = Task("error", data, <<>>)
    /\ UNCHANGED cancelling
    /\ UNCHANGED <<ws, sock, connPc, serviceType, presenterConfig,
                   negotiation, peerConnection, dataChannel, pcState, isStreamReady,
                   videoIsPlaying, lastBytesReceived, statsIntervalId, statsIntervals,
                   statsInFlight, fallbackTimers, settleTimers, rendered,
                   resetTimers, inits, pcMade, pcSinceClose, idsFresh, progress,
                   unresolved>>

(***************************************************************************)
(* An envelope of an unrecognized type arrives (lines 254-266): handled as *)
(* an error envelope when it passes the test of line 257, logged otherwise.*)
(***************************************************************************)
HandleDefault(data) ==
    /\ sock = "open"
    /\ IF ErrorLike(data)
       THEN /\ connectionState' =
                   updateConnectionState(connectionState,
                                         ErrorUpdates(formatApiError(data)))
            /\ hook' = onConnectionStateChange(hook, connectionState')
            /\ aliased' = TRUE
       ELSE UNCHANGED <<connectionState, hook, aliased>>
    /\ last' = Task("default", data, <<>>)
    /\ UNCHANGED cancelling
    /\ UNCHANGED <<ws, sock, connPc, serviceType, presenterConfig,
                   negotiation, peerConnection, dataChannel, pcState, isStreamReady,
                   videoIsPlaying, lastBytesReceived, statsIntervalId, statsIntervals,
                   statsInFlight, fallbackTimers, settleTimers, rendered,
                   resetTimers, inits, pcMade, pcSinceClose, idsFresh, progress,
                   unresolved>>

(***************************************************************************)
(* A message that is not JSON arrives: JSON.parse throws inside the try of *)
(* onmessage (lines 190-197), the catch logs it.                           *)
(***************************************************************************)
HandleInvalidJson ==
    /\ sock = "open"
    /\ last' = Task("invalid-json", None, <<>>)
    /\ UNCHANGED state

(***************************************************************************)
(* An ice envelope arrives: the candidate is handed to addIceCandidate, or *)
(* the envelope is dropped; a rejection of addIceCandidate is logged.      *)
(***************************************************************************)
HandleIce(payload) ==
    /\ sock = "open"
    /\ last' = Task("ice", [payload |-> payload,
                            applied |-> IceToApply(peerConnection, payload)], <<>>)
    /\ UNCHANGED aliased
    /\ UNCHANGED cancelling
    /\ UNCHANGED <<ws, sock, connPc, connectionState, serviceType, presenterConfig,
                   negotiation, peerConnection, dataChannel, pcState, isStreamReady,
                   videoIsPlaying, lastBytesReceived, statsIntervalId, statsIntervals,
                   statsInFlight, fallbackTimers, settleTimers, hook, rendered,
                   resetTimers, inits, pcMade, pcSinceClose, idsFresh, progress,
                   unresolved>>

(***************************************************************************)
(* An icecandidate event of the peer connection (gathering starts with     *)
(* setLocalDescription, inside createPeerConnection).                      *)
(***************************************************************************)
IceCandidate(event) ==
    /\ peerConnection # 0
    /\ last' = Task("iceCandidate", event,
                    handleIceCandidate(event, ws, sock, connectionState, serviceType))
    /\ UNCHANGED aliased
    /\ UNCHANGED cancelling
    /\ UNCHANGED <<ws, sock, connPc, connectionState, serviceType, presenterConfig,
                   negotiation, peerConnection, dataChannel, pcState, isStreamReady,
                   videoIsPlaying, lastBytesReceived, statsIntervalId, statsIntervals,
                   statsInFlight, fallbackTimers, settleTimers, hook, rendered,
                   resetTimers, inits, pcMade, pcSinceClose, idsFresh, progress,
                   unresolved>>

(***************************************************************************)
(* connectionstatechange to 'connected' (the remote end has the answer):   *)
(* the client's callback marks the connection, the manager arms the        *)
(* readiness fallback.                                                     *)
(***************************************************************************)
PcConnected ==
    /\ peerConnection # 0
    /\ pcState = "answered"
    /\ pcState' = "connected"
    /\ connectionState' =
           updateConnectionState(connectionState,
               [isConnecting |-> FALSE, isConnected |-> TRUE])
    /\ hook' = onConnectionStateChange(hook, connectionState')
    /\ aliased' = TRUE
    /\ fallbackTimers' = fallbackTimers + 1
    /\ cancelling' = [cancelling EXCEPT !.fallbackTimers = @ + 1]
    /\ progress' = Reached(progress, "connected")
    /\ last' = Task("pcConnected", None, <<>>)
    /\ UNCHANGED <<ws, sock, connPc, serviceType, presenterConfig, negotiation,
                   peerConnection, dataChannel, isStreamReady, videoIsPlaying,
                   lastBytesReceived, statsIntervalId, statsIntervals, statsInFlight,
                   settleTimers, rendered, resetTimers, inits, pcMade, pcSinceClose,
                   idsFresh, unresolved>>

(***************************************************************************)
(* iceconnectionstatechange to 'failed' or 'closed': the manager closes.   *)
(***************************************************************************)
PcIceFailed ==
    /\ peerConnection # 0
    /\ close
    /\ last' = Task("pcIceFailed", Flags, <<>>)
    /\ UNCHANGED aliased
    /\ UNCHANGED <<ws, sock, connPc, connectionState, serviceType, presenterConfig,
                   negotiation, statsInFlight, fallbackTimers, settleTimers, hook,
                   rendered, resetTimers, inits, pcMade, idsFresh, progress, unresolved>>

(***************************************************************************)
(* A data channel message: classified by processStreamEvent, which arms    *)
(* the settle timer on 'stream/ready'; the status goes to onStreamEvent.   *)
(***************************************************************************)
DcMessage(event) ==
    /\ dataChannel # 0
    /\ pcState = "connected"
    /\ LET r == processStreamEvent(event, isStreamReady)
       IN  /\ r.status = "ready" => settleTimers < MaxSettleTimers
           /\ settleTimers' = IF r.status = "ready" THEN settleTimers + 1 ELSE settleTimers
           /\ isStreamReady' = r.isReady
           /\ onStreamEvent(r.status)
           /\ last' = Task("dcMessage", r, <<>>)
    /\ UNCHANGED aliased
    /\ UNCHANGED cancelling
    /\ UNCHANGED <<ws, sock, connPc, connectionState, serviceType, presenterConfig,
                   negotiation, peerConnection, dataChannel, pcState, videoIsPlaying,
                   lastBytesReceived, statsIntervalId, statsIntervals, statsInFlight,
                   fallbackTimers, rendered, inits, pcMade, pcSinceClose, idsFresh,
                   progress>>

(***************************************************************************)
(* A track event: setupStatsMonitoring starts an interval timer and keeps  *)
(* its id in statsIntervalId.                                              *)
(***************************************************************************)
Track ==
    /\ peerConnection # 0
    /\ statsIntervals < MaxTracks
    /\ statsIntervals' = statsIntervals + 1
    /\ statsIntervalId' = "set"
    /\ last' = Task("track", None, <<>>)
    /\ UNCHANGED aliased
    /\ UNCHANGED cancelling
    /\ UNCHANGED <<ws, sock, connPc, connectionState, serviceType, presenterConfig,
                   negotiation, peerConnection, dataChannel, pcState, isStreamReady,
                   videoIsPlaying, lastBytesReceived, statsInFlight, fallbackTimers,
                   settleTimers, hook, rendered, resetTimers, inits, pcMade, pcSinceClose,
                   idsFresh, progress, unresolved>>

(***************************************************************************)
(* An interval timer of the sampler fires: it returns when there is no     *)
(* peer connection, and otherwise awaits getStats.                         *)
(***************************************************************************)
StatsTick ==
    /\ statsIntervals > 0
    /\ peerConnection # 0 => statsInFlight < MaxInFlight
    /\ statsInFlight' = IF peerConnection # 0 THEN statsInFlight + 1 ELSE statsInFlight
    /\ last' = Task("statsTick", IF peerConnection # 0 THEN "awaiting" ELSE None, <<>>)
    /\ UNCHANGED aliased
    /\ UNCHANGED cancelling
    /\ UNCHANGED <<ws, sock, connPc, connectionState, serviceType, presenterConfig,
                   negotiation, peerConnection, dataChannel, pcState, isStreamReady,
                   videoIsPlaying, lastBytesReceived, statsIntervalId, statsIntervals,
                   fallbackTimers, settleTimers, hook, rendered, resetTimers, inits,
                   pcMade, pcSinceClose, idsFresh, progress, unresolved>>

(***************************************************************************)
(* getStats settles and the sampler resumes: with an inbound video report  *)
(* of bytesReceived bytes (video = TRUE), or with none.                    *)
(***************************************************************************)
StatsResult(video, bytesReceived) ==
    /\ statsInFlight > 0
    /\ statsInFlight' = statsInFlight - 1
    /\ IF video
       THEN LET sample == StatsSample(videoIsPlaying, lastBytesReceived, bytesReceived)
            IN  /\ videoIsPlaying' = sample.videoIsPlaying
                /\ lastBytesReceived' = sample.lastBytesReceived
       ELSE UNCHANGED <<videoIsPlaying, lastBytesReceived>>
    /\ last' = Task("statsResult", None, <<>>)
    /\ UNCHANGED aliased
    /\ UNCHANGED cancelling
    /\ UNCHANGED <<ws, sock, connPc, connectionState, serviceType, presenterConfig,
                   negotiation, peerConnection, dataChannel, pcState, isStreamReady,
                   statsIntervalId, statsIntervals, fallbackTimers, settleTimers, hook,
                   rendered, resetTimers, inits, pcMade, pcSinceClose, idsFresh, progress,
                   unresolved>>

(***************************************************************************)
(* Timers.                                                                 *)
(***************************************************************************)
FallbackTimerFires ==
    /\ fallbackTimers > 0
    /\ fallbackTimers' = fallbackTimers - 1
    /\ isStreamReady' = FallbackReady(isStreamReady)
    /\ cancelling' = IF fallbackTimers > cancelling.fallbackTimers
                     THEN cancelling
                     ELSE [isStreamReady |-> TRUE,
                           fallbackTimers |-> cancelling.fallbackTimers - 1]
    /\ last' = Task("fallbackTimer", IF isStreamReady THEN "noop" ELSE "forced", <<>>)
    /\ UNCHANGED aliased
    /\ UNCHANGED <<ws, sock, connPc, connectionState, serviceType, presenterConfig,
                   negotiation, peerConnection, dataChannel, pcState, videoIsPlaying,
                   lastBytesReceived, statsIntervalId, statsIntervals, statsInFlight,
                   settleTimers, hook, rendered, resetTimers, inits, pcMade, pcSinceClose,
                   idsFresh, progress, unresolved>>

SettleTimerFires ==
    /\ settleTimers > 0
    /\ settleTimers' = settleTimers - 1
    /\ isStreamReady' = TRUE
    /\ cancelling' = [isStreamReady |-> TRUE, fallbackTimers |-> 0]
    /\ last' = Task("settleTimer", IF isStreamReady THEN "noop" ELSE "turned-on", <<>>)
    /\ UNCHANGED aliased
    /\ UNCHANGED <<ws, sock, connPc, connectionState, serviceType, presenterConfig,
                   negotiation, peerConnection, dataChannel, pcState, videoIsPlaying,
                   lastBytesReceived, statsIntervalId, statsIntervals, statsInFlight,
                   fallbackTimers, hook, rendered, resetTimers, inits, pcMade,
                   pcSinceClose, idsFresh, progress, unresolved>>

ResetTimerFires ==
    /\ resetTimers > 0
    /\ resetTimers' = resetTimers - 1
    /\ hook' = [hook EXCEPT !.isStreaming = FALSE]
    /\ last' = Task("resetTimer", None, <<>>)
    /\ UNCHANGED aliased
    /\ UNCHANGED cancelling
    /\ UNCHANGED <<ws, sock, connPc, connectionState, serviceType, presenterConfig,
                   negotiation, peerConnection, dataChannel, pcState, isStreamReady,
                   videoIsPlaying, lastBytesReceived, statsIntervalId, statsIntervals,
                   statsInFlight, fallbackTimers, settleTimers, rendered, inits, pcMade,
                   pcSinceClose, idsFresh, progress, unresolved>>

(***************************************************************************)
(* React renders: the callbacks are made anew over the committed state.    *)
(***************************************************************************)
Render ==
    /\ rendered # Snapshot(hook)
    /\ rendered' = Snapshot(hook)
    /\ last' = Task("render", None, <<>>)
    /\ UNCHANGED aliased
    /\ UNCHANGED cancelling
    /\ UNCHANGED <<ws, sock, connPc, connectionState, serviceType, presenterConfig,
                   negotiation, peerConnection, dataChannel, pcState, isStreamReady,
                   videoIsPlaying, lastBytesReceived, statsIntervalId, statsIntervals,
                   statsInFlight, fallbackTimers, settleTimers, hook, resetTimers, inits,
                   pcMade, pcSinceClose, idsFresh, progress, unresolved>>

(***************************************************************************)
(* DidClient.sendTextMessage (lines 77-125): the error it throws and the   *)
(* envelopes it puts on the socket.                                        *)
(***************************************************************************)
ClientSendTextMessage(text, messageIndex) ==
    IF SendTextGuard(ws, connectionState)
    THEN [threw |-> NOT_CONNECTED, by |-> "client", out |-> <<>>]
    ELSE [threw |-> None, by |-> "client",
          out |-> sendMessage(ws, sock,
                      StreamTextMessage(serviceType, connectionState, text, messageIndex))]

(***************************************************************************)
(* sendTextMessage of the hook (lines 134-156), over the closures of the   *)
(* last render.                                                            *)
(***************************************************************************)
HookSendTextMessage(text) ==
    IF ~rendered.isConnected
    THEN [threw |-> NOT_CONNECTED, by |-> "hook", out |-> <<>>]
    ELSE IF rendered.isStreaming
    THEN [threw |-> ALREADY_STREAMING, by |-> "hook", out |-> <<>>]
    ELSE ClientSendTextMessage(text, 0)

SendTextMessage(text) ==
    /\ LET r == HookSendTextMessage(text)
       IN  /\ r.out # <<>> => unresolved < MaxUnresolved
           /\ unresolved' = unresolved + Len(r.out)
           /\ last' = Task("sendTextMessage", [threw |-> r.threw, by |-> r.by], r.out)
    /\ UNCHANGED aliased
    /\ UNCHANGED cancelling
    /\ UNCHANGED <<ws, sock, connPc, connectionState, serviceType, presenterConfig,
                   negotiation, peerConnection, dataChannel, pcState, isStreamReady,
                   videoIsPlaying, lastBytesReceived, statsIntervalId, statsIntervals,
                   statsInFlight, fallbackTimers, settleTimers, hook, rendered,
                   resetTimers, inits, pcMade, pcSinceClose, idsFresh, progress>>

Next ==
    \/ Connect
    \/ WsOpen
    \/ WsError
    \/ WsClose
    \/ Disconnect
    \/ inits < MaxInits /\ HandleInitStream(InitResponse(inits + 1))
    \/ \E f \in InitFields : HandleInitStream(Without(InitResponse(1), f))
    \/ \E ok \in BOOLEAN : InitStreamEnd(ok)
    \/ \E m \in StatusMessages : HandleStreamText(m)
    \/ \E m \in OtherMessages : HandleOther(m)
    \/ \E payload \in IcePayloads : HandleIce(payload)
    \/ \E event \in IceEvents : IceCandidate(event)
    \/ PcConnected
    \/ PcIceFailed
    \/ \E event \in DcMessages : DcMessage(event)
    \/ FallbackTimerFires
    \/ SettleTimerFires
    \/ ResetTimerFires
    \/ Render
    \/ \E text \in Texts : SendTextMessage(text)

(***************************************************************************)
(* Spec: signaling, the readiness gate and the message sequencer, in       *)
(* sessions where no media track arrives.  The sampler's actions change    *)
(* only the sampler's fields, which no action of Next reads.               *)
(***************************************************************************)
Spec == Init /\ [][Next]_vars

(***************************************************************************)
(* SpecMedia: the peer connection manager with its media tracks and        *)
(* statistics sampler, in sessions where no text is submitted and the only *)
(* data channel message is 'stream/ready'.  The actions left out change    *)
(* only the sequencer's state and the record of the last task, which no    *)
(* action of NextMedia reads.                                              *)
(***************************************************************************)
NextMedia ==
    \/ Connect
    \/ WsOpen
    \/ WsError
    \/ WsClose
    \/ Disconnect
    \/ inits < MaxInits /\ HandleInitStream(InitResponse(inits + 1))
    \/ \E ok \in BOOLEAN : InitStreamEnd(ok)
    \/ PcConnected
    \/ PcIceFailed
    \/ DcMessage(<<"stream/ready", ":", "xyz">>)
    \/ Track
    \/ StatsTick
    \/ \E bytesReceived \in 0..MaxBytes : StatsResult(TRUE, bytesReceived)
    \/ StatsResult(FALSE, 0)
    \/ FallbackTimerFires
    \/ SettleTimerFires

SpecMedia == Init /\ [][NextMedia]_vars

\* SpecMedia with every armed timer of the readiness gate eventually firing.
FairMedia == SpecMedia /\ WF_vars(FallbackTimerFires) /\ WF_vars(SettleTimerFires)

(***************************************************************************)
(* SpecErrors: signaling with the error envelopes, the envelopes of an     *)
(* unrecognized type and the messages that are not JSON, in sessions where *)
(* the transport does not fail, no local candidate is found, no data       *)
(* channel message arrives and the sampler's timers do not fire.           *)
(***************************************************************************)
NextErrors ==
    \/ Connect
    \/ WsOpen
    \/ WsError
    \/ WsClose
    \/ Disconnect
    \/ inits < MaxInits /\ HandleInitStream(InitResponse(inits + 1))
    \/ \E ok \in BOOLEAN : InitStreamEnd(ok)
    \/ \E m \in StatusMessages : HandleStreamText(m)
    \/ \E m \in OtherMessages : HandleOther(m)
    \/ \E data \in ErrorEnvelopes : HandleError(data)
    \/ \E data \in UnknownEnvelopes : HandleDefault(data)
    \/ HandleInvalidJson
    \/ \E payload \in IcePayloads : HandleIce(payload)
    \/ PcConnected
    \/ Track
    \/ FallbackTimerFires
    \/ ResetTimerFires
    \/ Render
    \/ \E text \in Texts : SendTextMessage(text)

SpecErrors == Init /\ [][NextErrors]_vars

(***************************************************************************)
(* The records handed to the caller.  A callback receives                  *)
(* this.connectionState itself, which stays the client's record until the  *)
(* next updateConnectionState or resetConnectionState replaces it;         *)
(* getConnectionState() (lines 152-154) returns a spread copy.             *)
(***************************************************************************)
getConnectionState(cs) == [state |-> cs, internal |-> FALSE]

GetConnectionState ==
    /\ last' = Task("getConnectionState", getConnectionState(connectionState), <<>>)
    /\ UNCHANGED state

\* Assignments a caller makes to the properties of a record it holds.
Mutations == { [sessionId |-> None], [error |-> "edited by the caller"] }

\* obj after the assignments u, made in place.
Mutate(obj, u) == [k \in DOMAIN obj |-> IF k \in DOMAIN u THEN u[k] ELSE obj[k]]

(***************************************************************************)
(* The caller assigns to properties of a record it received: the one of    *)
(* the last callback, which the hook keeps in its state (line 63), or the  *)
(* one getConnectionState() has just returned.  The assignment reaches the *)
(* client when that record is the client's own.                            *)
(***************************************************************************)
CallerMutates(received, u) ==
    /\ received = "callback" => hook.connectionState # InitialConnectionState
    /\ received = "getter" => last.op = "getConnectionState"
    /\ IF received = "callback"
       THEN /\ hook' = [hook EXCEPT !.connectionState = Mutate(hook.connectionState, u)]
            /\ connectionState' = IF aliased THEN Mutate(connectionState, u)
                                  ELSE connectionState
       ELSE /\ connectionState' = IF last.result.internal THEN Mutate(connectionState, u)
                                  ELSE connectionState
            /\ UNCHANGED hook
    /\ last' = Task("callerMutates", received, <<>>)
    /\ UNCHANGED cancelling
    /\ UNCHANGED <<ws, sock, connPc, serviceType, presenterConfig, negotiation,
                   peerConnection, dataChannel, pcState, isStreamReady, videoIsPlaying,
                   lastBytesReceived, statsIntervalId, statsIntervals, statsInFlight,
                   fallbackTimers, settleTimers, rendered, resetTimers, inits, pcMade,
                   pcSinceClose, idsFresh, progress, unresolved, aliased>>

(***************************************************************************)
(* SpecAlias: signaling with a caller that reads the connection state and  *)
(* assigns to the records it was handed.                                   *)
(***************************************************************************)
NextAlias ==
    \/ Connect
    \/ WsOpen
    \/ WsError
    \/ WsClose
    \/ Disconnect
    \/ inits < MaxInits /\ HandleInitStream(InitResponse(inits + 1))
    \/ \E ok \in BOOLEAN : InitStreamEnd(ok)
    \/ PcConnected
    \/ FallbackTimerFires
    \/ GetConnectionState
    \/ \E received \in {"callback", "getter"}, u \in Mutations : CallerMutates(received, u)
    \/ Render
    \/ \E text \in Texts : SendTextMessage(text)

SpecAlias == Init /\ [][NextAlias]_vars

(***************************************************************************)
(* Events delivered by a connection object or data channel the manager has *)
(* closed and dropped.  close() (lines 170-195) sets the on* properties to *)
(* null; the listeners of setupEventListeners were added with              *)
(* addEventListener (lines 57-90) and are not removed, so each still runs  *)
(* when its event is delivered.                                            *)
(***************************************************************************)
\* The manager has dropped a connection object.
Discarded == pcMade > (IF peerConnection # 0 THEN 1 ELSE 0)

\* 'message' of a dropped data channel: callbacks.onStreamEvent (line 90).
StaleDcMessage(event) ==
    /\ Discarded
    /\ LET r == processStreamEvent(event, isStreamReady)
       IN  /\ r.status = "ready" => settleTimers < MaxSettleTimers
           /\ settleTimers' = IF r.status = "ready" THEN settleTimers + 1 ELSE settleTimers
           /\ isStreamReady' = r.isReady
           /\ onStreamEvent(r.status)
           /\ last' = Task("staleDcMessage", r, <<>>)
    /\ UNCHANGED cancelling
    /\ UNCHANGED <<ws, sock, connPc, connectionState, serviceType, presenterConfig,
                   negotiation, peerConnection, dataChannel, pcState, videoIsPlaying,
                   lastBytesReceived, statsIntervalId, statsIntervals, statsInFlight,
                   fallbackTimers, rendered, inits, pcMade, pcSinceClose, idsFresh,
                   progress, aliased>>

\* 'icecandidate' of a dropped connection object: callbacks.onIceCandidate (line 61).
StaleIceCandidate(event) ==
    /\ Discarded
    /\ last' = Task("staleIceCandidate", event,
                    handleIceCandidate(event, ws, sock, connectionState, serviceType))
    /\ UNCHANGED state

\* 'track' of a dropped connection object: setupStatsMonitoring starts an
\* interval timer (lines 85-88).
StaleTrack ==
    /\ Discarded
    /\ statsIntervals < MaxTracks
    /\ statsIntervals' = statsIntervals + 1
    /\ statsIntervalId' = "set"
    /\ last' = Task("staleTrack", None, <<>>)
    /\ UNCHANGED cancelling
    /\ UNCHANGED <<ws, sock, connPc, connectionState, serviceType, presenterConfig,
                   negotiation, peerConnection, dataChannel, pcState, isStreamReady,
                   videoIsPlaying, lastBytesReceived, statsInFlight, fallbackTimers,
                   settleTimers, hook, rendered, resetTimers, inits, pcMade, pcSinceClose,
                   idsFresh, progress, unresolved, aliased>>

\* 'connectionstatechange' of a dropped connection object (lines 72-79): the
\* listener reads this.peerConnection!.connectionState, which throws when the
\* manager holds no connection object and is the state of the current object
\* otherwise.
StaleConnectionStateChange ==
    /\ Discarded
    /\ IF peerConnection # 0 /\ pcState = "connected"
       THEN /\ fallbackTimers < MaxFallbackTimers
            /\ connectionState' =
                   updateConnectionState(connectionState,
                       [isConnecting |-> FALSE, isConnected |-> TRUE])
            /\ hook' = onConnectionStateChange(hook, connectionState')
            /\ aliased' = TRUE
            /\ fallbackTimers' = fallbackTimers + 1
            /\ cancelling' = [cancelling EXCEPT !.fallbackTimers = @ + 1]
            /\ last' = Task("staleConnectionStateChange", "connected", <<>>)
       ELSE /\ last' = Task("staleConnectionStateChange", None, <<>>)
            /\ UNCHANGED <<connectionState, hook, aliased, fallbackTimers, cancelling>>
    /\ UNCHANGED <<ws, sock, connPc, serviceType, presenterConfig, negotiation,
                   peerConnection, dataChannel, pcState, isStreamReady, videoIsPlaying,
                   lastBytesReceived, statsIntervalId, statsIntervals, statsInFlight,
                   settleTimers, rendered, resetTimers, inits, pcMade, pcSinceClose,
                   idsFresh, progress, unresolved>>

(***************************************************************************)
(* SpecStale: the sessions of the peer connection manager, with events     *)
(* delivered by the objects it has dropped.                                *)
(***************************************************************************)
NextStale ==
    \/ Connect
    \/ WsOpen
    \/ WsError
    \/ Disconnect
    \/ inits < MaxInits /\ HandleInitStream(InitResponse(inits + 1))
    \/ \E ok \in BOOLEAN : InitStreamEnd(ok)
    \/ PcConnected
    \/ PcIceFailed
    \/ \E event \in DcMessages : DcMessage(event)
    \/ \E event \in DcMessages : StaleDcMessage(event)
    \/ \E event \in IceEvents : StaleIceCandidate(event)
    \/ StaleTrack
    \/ StaleConnectionStateChange
    \/ FallbackTimerFires
    \/ SettleTimerFires
    \/ ResetTimerFires

SpecStale == Init /\ [][NextStale]_vars

(***************************************************************************)
(* formatApiError applied to one payload, the client being as constructed. *)
(***************************************************************************)
FormatApiError(data) ==
    /\ last' = Task("formatApiError", [data |-> data, errorMsg |-> formatApiError(data)],
                    <<>>)
    /\ UNCHANGED state

NextFormat == \E data \in ApiErrors : FormatApiError(data)

SpecFormat == Init /\ [][NextFormat]_vars

(***************************************************************************)
(* Properties.                                                             *)
(***************************************************************************)
\* A submit the hook hands on to DidClient.sendTextMessage.
Delegated == rendered.isConnected /\ ~rendered.isStreaming

Submit == \E text \in Texts : SendTextMessage(text)

\* C1: a submit made while an earlier accepted segment has had no terminal
\* status throws the already-streaming error and puts no envelope on the
\* control channel.
C1_SecondSubmitThrows ==
    [][(unresolved > 0 /\ Submit)
           => (last'.result.threw = ALREADY_STREAMING /\ last'.out = <<>>)]_vars

\* C2: at most one stream-text envelope is unresolved at a time: a terminal
\* status was observed between any two of them.
C2_AtMostOneUnresolved == unresolved <= 1

\* C3: DidClient.sendTextMessage throws the not-connected error whenever the
\* socket, the stream id or the session id is unset; it then sends nothing and
\* leaves ConnectionState as it was.
C3_NotConnectedThrows ==
    [][(Submit /\ Delegated
            /\ (ws = "null" \/ connectionState.streamId = None
                            \/ connectionState.sessionId = None))
           => /\ last'.result = [threw |-> NOT_CONNECTED, by |-> "client"]
              /\ last'.out = <<>>
              /\ connectionState' = connectionState]_vars

\* C3 witness: the client threw while it held a socket, for want of a session.
C3_Witness ==
    /\ last.op = "sendTextMessage"
    /\ last.result = [threw |-> NOT_CONNECTED, by |-> "client"]
    /\ ws = "set"
    /\ connectionState.sessionId = None

\* C4: DidClient.sendTextMessage fails with the not-connected error whenever
\* the control channel is not open, and never returns normally without having
\* sent the envelope.
C4_ClosedChannelThrows ==
    [][(Submit /\ Delegated)
           => /\ sock # "open" => last'.result.threw = NOT_CONNECTED
              /\ last'.result.threw = None => last'.out # <<>>]_vars

\* C5: every stream-text envelope put on the control channel carries the
\* non-null stream and session identifiers of the latest init-stream response,
\* and that response came on the socket of the current attempt.
C5_EnvelopeCarriesSession ==
    [][\A i \in 1..Len(last'.out) :
           last'.out[i].type = "stream-text"
               => /\ last'.out[i].session_id # None
                  /\ last'.out[i].stream_id # None
                  /\ idsFresh
                  /\ inits > 0
                  /\ last'.out[i].session_id = SessionIds[inits]
                  /\ last'.out[i].stream_id = StreamIds[inits]]_vars

\* C5 witness: a segment sent in the second session carries its identifiers.
C5_Witness ==
    /\ last.op = "sendTextMessage"
    /\ Len(last.out) = 1
    /\ last.out[1].type = "stream-text"
    /\ last.out[1].session_id = SessionIds[2]
    /\ last.out[1].stream_id = StreamIds[2]

\* C6: once assigned, the stream and session identifiers do not change until
\* a teardown clears them; a further init-stream envelope does not replace them.
C6_IdentifiersImmutable ==
    [][(connectionState.sessionId # None /\ connectionState'.sessionId # None)
           => /\ connectionState'.sessionId = connectionState.sessionId
              /\ connectionState'.streamId = connectionState.streamId]_vars

IncompleteInit == \E f \in InitFields : HandleInitStream(Without(InitResponse(1), f))

\* C7: an init-stream response with a required field missing assigns no
\* identifier, creates no peer connection or data channel, starts no
\* negotiation and sends no envelope.
C7_NoPartialSuccess ==
    [][IncompleteInit
           => /\ connectionState'.sessionId = connectionState.sessionId
              /\ connectionState'.streamId = connectionState.streamId
              /\ peerConnection' = peerConnection
              /\ dataChannel' = dataChannel
              /\ pcMade' = pcMade
              /\ negotiation' = negotiation
              /\ last'.out = <<>>]_vars

\* C7 witness: an incomplete response was refused before any session existed.
C7_Witness ==
    /\ last.op = "init-stream"
    /\ last.result = INVALID_INIT
    /\ connectionState.sessionId = None
    /\ peerConnection = 0

\* C8: an init-stream response with a required field missing is surfaced: the
\* error is set, isConnecting is false and the caller got that state.
C8_IncompleteInitSurfaced ==
    [][IncompleteInit
           => /\ connectionState'.error # None
              /\ ~connectionState'.isConnecting
              /\ hook'.connectionState = connectionState']_vars

Rank(milestone) ==
    CASE milestone = "open" -> 1
      [] milestone = "init-sent" -> 2
      [] milestone = "assigned" -> 3
      [] milestone = "answer" -> 4
      [] milestone = "sdp-sent" -> 5
      [] milestone = "connected" -> 6

\* C9: the milestones of an attempt come in the order channel open, init-stream
\* request sent, identifiers assigned, answer generated, sdp sent, isConnected;
\* none comes without the ones before it; and when the peer manager returns
\* its answer on an open channel, exactly one sdp envelope goes out, with that
\* answer and the session_id of the response that was answered.
C9_HandshakeOrder ==
    /\ \A i, j \in 1..Len(progress) : i < j => Rank(progress[i]) < Rank(progress[j])
    /\ \A i \in 1..Len(progress) :
           \A k \in 1..(Rank(progress[i]) - 1) : \E j \in 1..Len(progress) : Rank(progress[j]) = k
    /\ connectionState.isConnected => Has(progress, "connected")
    /\ (\E i \in 1..Len(last.out) : last.out[i].type = "sdp") => last.op = "initStreamEnd"
    /\ (last.op = "initStreamEnd" /\ last.result # WEBRTC_FAILED /\ sock = "open")
           => \E n \in 1..inits :
                  /\ last.result = SessionIds[n]
                  /\ last.out = <<[type |-> "sdp", answer |-> Answer(Offers[n]),
                                   session_id |-> SessionIds[n],
                                   presenter_type |-> presenter_type(serviceType)]>>

\* C10: between two close() calls the manager constructs at most one
\* connection object, and holds it together with its one data channel.
C10_OnePeerConnection ==
    /\ pcSinceClose <= 1
    /\ (peerConnection = 0) = (pcSinceClose = 0)
    /\ dataChannel = peerConnection

\* C10 witness: a second createPeerConnection call found the objects of the first.
C10_Witness ==
    /\ last.op = "init-stream"
    /\ last.result = "awaiting"
    /\ inits = 2
    /\ pcMade = 1
    /\ peerConnection = 1
    /\ dataChannel = 1

\* C11 as stated: every non-null local candidate produces exactly one ice
\* envelope with its fields, a null candidate produces none.
C11_EveryCandidateForwarded ==
    [][\A event \in IceEvents :
           IceCandidate(event)
               => IF event.candidate = Nil THEN last'.out = <<>>
                  ELSE /\ Len(last'.out) = 1
                       /\ last'.out[1].type = "ice"
                       /\ last'.out[1].candidate = event.candidate.candidate]_vars

\* C11, amended: while the control channel is open, every non-null local
\* candidate produces exactly one ice envelope carrying its candidate, sdpMid
\* and sdpMLineIndex and the client's non-null stream and session identifiers;
\* a null candidate, or any candidate once the channel is no longer open,
\* produces none; no ice envelope without a candidate is ever sent.
C11_CandidateForwardedWhileOpen ==
    [][\A event \in IceEvents :
           IceCandidate(event)
               => /\ IF event.candidate # Nil /\ sock = "open"
                     THEN /\ connectionState.streamId # None
                          /\ connectionState.sessionId # None
                          /\ last'.out =
                                 <<[type |-> "ice",
                                    stream_id |-> connectionState.streamId,
                                    session_id |-> connectionState.sessionId,
                                    presenter_type |-> presenter_type(serviceType),
                                    candidate |-> event.candidate.candidate,
                                    sdpMid |-> event.candidate.sdpMid,
                                    sdpMLineIndex |-> event.candidate.sdpMLineIndex]>>
                     ELSE last'.out = <<>>
                  /\ \A i \in 1..Len(last'.out) :
                         last'.out[i].type = "ice" => Truthy(last'.out[i].candidate)]_vars

\* C11 witness: the second candidate went out in an envelope of its own.
C11_Witness ==
    /\ last.op = "iceCandidate"
    /\ Len(last.out) = 1
    /\ last.out[1].candidate = Str("c2")
    /\ last.out[1].session_id = connectionState.sessionId

\* C12: an ice envelope that arrives while there is no peer connection is
\* dropped: addIceCandidate is not called, nothing of the program's state
\* changes, and the channel goes on delivering envelopes.
C12_IceWithoutPeerDiscarded ==
    [][\A payload \in IcePayloads :
           (HandleIce(payload) /\ peerConnection = 0)
               => /\ last'.result.applied = Nil
                  /\ state' = state]_vars

\* C12 witness: a nested candidate arrived on the open channel with no peer
\* connection, and was dropped.
C12_Witness ==
    /\ last.op = "ice"
    /\ last.result.payload = NestedPayload("r1")
    /\ last.result.applied = Nil
    /\ peerConnection = 0
    /\ sock = "open"

\* C13: with a peer connection present, an ice envelope with the candidate
\* fields flat and one with them nested under a candidate key both have
\* addIceCandidate called with that candidate, sdpMid and sdpMLineIndex.
C13_FlatAndNestedApplied ==
    [][\A payload \in {FlatPayload("r1"), NestedPayload("r1")} :
           (HandleIce(payload) /\ peerConnection # 0)
               => last'.result.applied = Candidate("r1")]_vars

\* C14: when close() returns, isStreamReady is its startup value (not warmup)
\* and videoIsPlaying is false, whatever they were before.
C14_CloseResetsFlags ==
    [][(Disconnect \/ PcIceFailed)
           => (isStreamReady' = ~Warmup /\ videoIsPlaying' = FALSE)]_vars

\* C14 witness: close() ran on a manager that was ready and playing.
C14_Witness ==
    /\ last.op = "pcIceFailed"
    /\ last.result.isStreamReady
    /\ last.result.videoIsPlaying
    /\ ~isStreamReady
    /\ ~videoIsPlaying

\* C15: the fallback timer never turns readiness from true to false, and
\* when readiness is already true as it fires, it changes nothing (but for
\* the timer being spent).
C15_FallbackIdempotent ==
    [][FallbackTimerFires
           => (isStreamReady
                   => /\ isStreamReady'
                      /\ UNCHANGED <<ws, sock, connPc, connectionState, serviceType,
                                     presenterConfig, negotiation, peerConnection,
                                     dataChannel, pcState, videoIsPlaying,
                                     lastBytesReceived, statsIntervalId, statsIntervals,
                                     statsInFlight, settleTimers, hook, rendered,
                                     resetTimers, inits, pcMade, pcSinceClose, idsFresh,
                                     progress, unresolved>>)]_vars

\* C15 witness: the fallback timer fired after readiness had become true.
C15_Witness ==
    /\ last.op = "fallbackTimer"
    /\ last.result = "noop"
    /\ isStreamReady
    /\ pcState = "connected"

ReadyMessage == DcMessage(<<"stream/ready", ":", "xyz">>)

C17_EventuallyReady ==
    (pcState = "connected") ~> (isStreamReady \/ pcState # "connected")

\* C17 witness: the fallback timer forced readiness, no ready message pending.
C17_Witness ==
    /\ last.op = "fallbackTimer"
    /\ last.result = "forced"
    /\ isStreamReady
    /\ settleTimers = 0
    /\ pcState = "connected"

\* The closed vocabulary of statuses.
Vocabulary == {"started", "done", "ready", "error", "ignored"}

\* The status the classifier is to give to a prefix.
ClaimedStatus(eventType) ==
    IF eventType = <<"stream/started">> THEN "started"
    ELSE IF eventType = <<"stream/done">> THEN "done"
    ELSE IF eventType = <<"stream/ready">> THEN "ready"
    ELSE IF eventType = <<"stream/error">> THEN "error"
    ELSE "ignored"

\* C18: the classifier maps the text before the first ':' of a data channel
\* message to started, done, ready or error, and every other prefix to
\* ignored; that status is what the caller's stream-event callback gets.
C18_ClassifierMapping ==
    [][\A event \in DcMessages :
           DcMessage(event) => last'.result.status = ClaimedStatus(EventType(event))]_vars

\* C19: every status handed to the caller's onStreamEvent, from a data
\* channel message or from a stream-text envelope, is in the closed
\* vocabulary {started, done, ready, error, ignored}.
C19_ClosedVocabulary ==
    /\ last.op = "dcMessage" => last.result.status \in Vocabulary
    /\ (last.op = "stream-text" /\ last.result # None) => last.result \in Vocabulary

\* A step in which the caller's onStreamEvent gets a terminal status.
TerminalStatusStep ==
    \/ last'.op = "dcMessage" /\ last'.result.status \in {"done", "error"}
    \/ last'.op = "stream-text" /\ last'.result \in {"done", "error"}

\* C20: the in-flight flag of the sequencer is cleared by a done and by an
\* error status, and by nothing else short of a disconnect.
C20_ClearedByTerminalStatusOnly ==
    [][/\ TerminalStatusStep => ~hook'.isStreaming
       /\ (hook.isStreaming /\ ~hook'.isStreaming)
              => (TerminalStatusStep \/ last'.op = "disconnect")]_vars

\* C21: between a done status and the firing of the cooldown timer it armed,
\* isReady() is false and a submit is rejected with nothing sent.
C21_CooldownBlocksSubmit ==
    [][/\ resetTimers' > 0 => ~isReady'
       /\ (resetTimers > 0 /\ Submit)
              => (last'.result.threw # None /\ last'.out = <<>>)]_vars

\* C22: disconnect() completes without throwing from every state, and whether
\* or not the delete-stream could be sent it closes the channel it holds,
\* closes the manager and resets the state.
C22_DisconnectNeverThrows ==
    [][Disconnect =>
          /\ ~last'.result.threw
          /\ ws' = "null"
          /\ ws # "null" => sock' = "closed"
          /\ peerConnection' = 0 /\ dataChannel' = 0
          /\ connectionState' = InitialConnectionState]_vars

\* A disconnect() called while the channel is held but no longer open and a
\* peer connection exists: nothing could be sent, the teardown ran.
C22_Witness ==
    /\ last.op = "disconnect"
    /\ last.result.ws # "null" /\ last.result.sock = "closed" /\ last.result.pc
    /\ last.out = <<>>
    /\ ws = "null" /\ peerConnection = 0
    /\ connectionState = InitialConnectionState

\* C23: after disconnect() the connection state is the initial one, the client
\* holds no channel and the manager no peer connection or data channel; with an
\* open channel a delete-stream carrying the identifiers held before the reset
\* was put on the socket before it was closed.
C23_DisconnectPostState ==
    [][Disconnect =>
          /\ connectionState' = InitialConnectionState
          /\ ws' = "null"
          /\ peerConnection' = 0 /\ dataChannel' = 0
          /\ (ws # "null" /\ sock = "open")
                 => /\ last'.out = <<[type |-> "delete-stream",
                                      session_id |-> connectionState.sessionId,
                                      stream_id |-> connectionState.streamId]>>
                    /\ sock' = "closed"]_vars

\* A disconnect() of an established session: the delete-stream carried its ids.
C23_Witness ==
    /\ last.op = "disconnect"
    /\ last.result.sock = "open" /\ last.result.cs.sessionId # None
    /\ Len(last.out) = 1
    /\ last.out[1].session_id = last.result.cs.sessionId
    /\ last.out[1].stream_id = last.result.cs.streamId
    /\ connectionState = InitialConnectionState /\ ws = "null"

\* t occurs in s
Contains(s, t) ==
    \E i \in 1..(Len(s) + 1) : i + Len(t) - 1 <= Len(s) /\ SubSeq(s, i, i + Len(t) - 1) = t

\* C26: formatApiError by precedence: with a message the result contains the
\* message and every connectionId and requestId present; otherwise with an error
\* the result is that error, serialized when not a string; otherwise it is
\* payload.error; otherwise the whole payload serialized.  It is never empty.
C26_FormatPrecedence ==
    last.op = "formatApiError" =>
        LET data == last.result.data
            errorMsg == last.result.errorMsg
            Text(x) == IF IsString(x) THEN x.str ELSE Stringify(x)
        IN /\ errorMsg # ""
           /\ IF "message" \in DOMAIN data
              THEN /\ Contains(errorMsg, data.message.str)
                   /\ "connectionId" \in DOMAIN data
                          => Contains(errorMsg, data.connectionId.str)
                   /\ "requestId" \in DOMAIN data
                          => Contains(errorMsg, data.requestId.str)
              ELSE IF "error" \in DOMAIN data
              THEN errorMsg = Text(data.error)
              ELSE IF "payload" \in DOMAIN data /\ "error" \in DOMAIN data.payload
              THEN errorMsg = Text(data.payload.error)
              ELSE Contains(errorMsg, Stringify(data))

\* A payload with message, connectionId and an error too: the message wins.
C26_Witness ==
    /\ last.op = "formatApiError"
    /\ last.result.data = [messageType |-> Str("error"), message |-> Str("Quota exceeded"),
                           connectionId |-> Str("c1"), error |-> Str("bad")]
    /\ last.result.errorMsg = "Quota exceeded (Connection: c1)"

\* An inbound event handled without failure: an accepted init-stream response
\* and the end of its negotiation, ice, stream-text, sdp, delete-stream, the
\* transport reaching 'connected', and a media track.
SuccessfulInbound ==
    \/ last'.op \in {"ice", "stream-text", "sdp", "delete-stream", "pcConnected",
                   "track"}
    \/ last'.op = "init-stream" /\ last'.result = "awaiting"
    \/ last'.op = "initStreamEnd" /\ last'.result # WEBRTC_FAILED

\* C24: an error held in the connection state stays as it is across every
\* successful inbound event, and only connect() or disconnect() sets it back
\* to null.
C24_ErrorSticky ==
    [][connectionState.error # None =>
          /\ SuccessfulInbound => connectionState'.error = connectionState.error
          /\ connectionState'.error = None => last'.op \in {"connect", "disconnect"}]_vars

\* The transport reaches 'connected' in a session that holds an error: the
\* session is connected and the error is still there.
C24_Witness ==
    /\ last.op = "pcConnected"
    /\ connectionState.isConnected
    /\ connectionState.error # None

\* C25: an error envelope puts the formatted message in the connection state
\* and notifies the caller, and tears nothing down: the identifiers and
\* isConnected are unchanged, the channel stays open, the peer connection and
\* data channel are kept, and a later submit on the session is still sent.
C25_ErrorEnvelopeKeepsSession ==
    [][/\ \A data \in ErrorEnvelopes : HandleError(data) =>
              /\ connectionState'.error = formatApiError(data)
              /\ hook'.connectionState = connectionState'
              /\ connectionState'.sessionId = connectionState.sessionId
              /\ connectionState'.streamId = connectionState.streamId
              /\ connectionState'.isConnected = connectionState.isConnected
              /\ UNCHANGED <<ws, sock, peerConnection, dataChannel, pcState>>
       /\ (/\ Submit
           /\ connectionState.error # None
           /\ Delegated
           /\ ws # "null" /\ sock = "open"
           /\ connectionState.sessionId # None /\ connectionState.streamId # None)
              => (last'.result.threw = None /\ Len(last'.out) = 1)]_vars

\* An error envelope has arrived in an established session.
C25_Witness ==
    /\ last.op = "error"
    /\ connectionState.error = "Quota exceeded (Connection: c1)"
    /\ hook.connectionState.error = connectionState.error
    /\ connectionState.isConnected /\ connectionState.sessionId # None
    /\ sock = "open" /\ peerConnection # 0 /\ dataChannel # 0

\* C27: an envelope of an unrecognized type that carries an error or a message
\* is handled as an error envelope is; one that carries neither, and a message
\* that is not JSON, change no state and call no callback, and the handler
\* goes on receiving.
C27_UnrecognizedEnvelopes ==
    [][/\ \A data \in UnknownEnvelopes : HandleDefault(data) =>
              IF "error" \in DOMAIN data \/ "message" \in DOMAIN data
              THEN /\ connectionState' =
                          [connectionState EXCEPT !.error = formatApiError(data),
                                                  !.isConnecting = FALSE]
                   /\ hook' = [hook EXCEPT !.connectionState = connectionState']
                   /\ UNCHANGED <<ws, sock, peerConnection, dataChannel, pcState,
                                  negotiation, rendered, unresolved>>
              ELSE state' = state
       /\ HandleInvalidJson => state' = state]_vars

\* An envelope of an unrecognized type with a message was handled as an error.
C27_Witness ==
    /\ last.op = "default"
    /\ "message" \in DOMAIN last.result
    /\ connectionState.error = formatApiError(last.result)
    /\ hook.connectionState.error = connectionState.error

\* C28: the automatic teardown on a failed or closed transport resets the
\* client's connection state to the initial one as disconnect() does, so
\* isConnected is never true while the manager holds no peer connection.
C28_AutoTeardownResetsSession ==
    [][/\ PcIceFailed => connectionState' = InitialConnectionState
       /\ connectionState'.isConnected => peerConnection' # 0]_vars

\* The connection object of the current attempt was constructed and has been
\* closed, and connect() has not been called since.
TornDown == Has(progress, "assigned") /\ peerConnection = 0 /\ connPc = "idle"

\* C29: on a failed or closed transport the manager runs close() itself (peer
\* connection and data channel discarded, sampler stopped, readiness and
\* playing reset), and from then until the next connect() no control channel
\* is opened, no init-stream request is sent and no connection object is
\* constructed.
C29_NoReconnectAfterFailure ==
    [][/\ PcIceFailed =>
              /\ peerConnection' = 0 /\ dataChannel' = 0
              /\ statsIntervalId' = None
              /\ isStreamReady' = ~Warmup /\ ~videoIsPlaying'
       /\ (TornDown /\ last'.op # "connect") =>
              /\ sock' # "open" \/ sock = "open"
              /\ \A i \in 1..Len(last'.out) : last'.out[i].type # "init-stream"
              /\ pcMade' = pcMade /\ peerConnection' = 0]_vars

\* C30: every connection state handed to the caller, by getConnectionState()
\* and by onConnectionStateChange, is a copy: an assignment the caller makes to
\* a record it received never changes the record the client reads and reports.
C30_HandedStateIsCopy ==
    [][(\E received \in {"callback", "getter"}, u \in Mutations :
            CallerMutates(received, u))
           => connectionState' = connectionState]_vars

\* The presenter configuration of the client misses a required field.
InvalidConfig == createInitStreamMessage(serviceType, presenterConfig).threw # None

\* C31: with a presenter configuration that misses a required field, connect()
\* fails before any network activity: no control channel is ever opened, no
\* envelope is sent, the client holds no channel, and once the failure is
\* reported isConnecting is false and error is set.
C31_InvalidConfigNoNetwork ==
    InvalidConfig =>
        /\ sock = "none"
        /\ ws = "null"
        /\ last.out = <<>>
        /\ connectionState.error # None => ~connectionState.isConnecting

\* C32: when the negotiation of an init-stream response fails, the error is
\* put in the connection state, isConnecting becomes false, the caller's
\* connection-state callback is called, no sdp envelope is sent, and
\* isConnected does not become true in that attempt.
C32_NegotiationFailureSurfaced ==
    [][/\ (last'.op = "initStreamEnd" /\ last'.result = WEBRTC_FAILED) =>
              /\ connectionState'.error = WEBRTC_FAILED
              /\ ~connectionState'.isConnecting
              /\ hook'.connectionState = connectionState'
              /\ last'.out = <<>>
       /\ connectionState'.error = WEBRTC_FAILED => ~connectionState'.isConnected]_vars

\* C33: while the manager holds no peer connection (from close() to the next
\* createPeerConnection) no interval timer of the sampler is left running,
\* whatever the number of track events before the close, and no sample, one
\* in flight at the close included, has changed videoIsPlaying or
\* lastBytesReceived since.
C33_NoSamplerAfterClose ==
    peerConnection = 0 =>
        /\ statsIntervals = 0
        /\ ~videoIsPlaying
        /\ lastBytesReceived = 0

\* An event of a dropped connection object or data channel was delivered.
StaleEvent ==
    last'.op \in {"staleDcMessage", "staleIceCandidate", "staleTrack",
                  "staleConnectionStateChange"}

\* C34: close() detaches every handler: an event delivered afterwards by the
\* dropped connection object or data channel calls no callback of the caller
\* and changes neither the manager's flags and timers nor the connection state.
C34_ClosedObjectsAreSilent ==
    [][(StaleEvent /\ last' # last) =>
           /\ hook' = hook
           /\ last'.out = <<>>
           /\ UNCHANGED <<connectionState, isStreamReady, videoIsPlaying,
                          lastBytesReceived, statsIntervalId, statsIntervals,
                          fallbackTimers, settleTimers, resetTimers, unresolved>>]_vars

\* C35: the fallback timer guarded at fire time and never cancelled gives the
\* same readiness as a fallback timer cancelled on explicit ready and on
\* close(): in every state the manager's isStreamReady equals the readiness of
\* the manager that cancels.
C35_GuardedEqualsCancelled == isStreamReady = cancelling.isStreamReady

\* C36: whenever the manager holds no connection object, isStreamReady has its
\* startup value and videoIsPlaying is false: no settle or fallback timer armed
\* in a closed session flips readiness afterwards.
C36_IdleManagerFlags ==
    peerConnection = 0 => (isStreamReady = ~Warmup /\ ~videoIsPlaying)

\* connect() is waiting for its socket to open and disconnect() has been
\* called since it started: the state connect() had marked is the initial one.
Abandoned == connPc = "awaitOpen" /\ connectionState = InitialConnectionState

\* C37: after a disconnect() called while connect() waits for the channel to
\* open, the opening of the channel sends no init-stream request and leaves
\* no open channel with the client, and no session is assigned or connected
\* until connect() is called again.
C37_DisconnectWhileConnecting ==
    [][(Abandoned /\ WsOpen) =>
           /\ last'.out = <<>>
           /\ ws' = "null"
           /\ sock' # "open"]_vars


\* C38: the delayed reset armed when a segment reports done changes nothing
\* when it fires: the flag of that segment is already clear, a segment
\* started in the meantime keeps its in-flight flag, and after a disconnect
\* the hook's state stays as the disconnect left it.
C38_ResetTimerTouchesOwnSegmentOnly ==
    [][ResetTimerFires => hook' = hook]_vars

\* C39: with warmup enabled, while the manager's isStreamReady is false
\* isReady() is not true and no stream-text envelope goes on the socket.
C39_ReadinessGatesSubmission ==
    /\ (Warmup /\ ~isStreamReady) => ~isReady
    /\ [][(Warmup /\ ~isStreamReady /\ Submit) => last'.out = <<>>]_vars

====
